---- MODULE Spec2Model ----
(***************************************************************************)
(* State-machine model of API_Uptime_Monitor.py: the polling loop of       *)
(* schedule_monitor, one monitoring cycle (monitor_job), the probe         *)
(* (check_endpoint over the retrying SESSION of make_session) and the two  *)
(* alert sinks (send_telegram_alert, send_slack_alert).                    *)
(*                                                                         *)
(* Time is counted in whole seconds.  A response time is kept in           *)
(* hundredths of a second, the resolution round(..., 2) leaves.  The wall  *)
(* clock is not set back while the process runs.  A transport attempt      *)
(* takes no time or the whole timeout of its call; a connection that fails *)
(* fails at once.                                                          *)
(*                                                                         *)
(* make_session always mounts the retrying adapter: the imports of lines   *)
(* 31-32 are of modules that `import requests` (line 6) has loaded, so the *)
(* except branch of line 38 is not taken.  What the adapter does with an   *)
(* attempt (Retry of urllib3, HTTPAdapter of requests) and when the job is *)
(* due (schedule) follow those libraries.  For a period that is not        *)
(* positive the versions of schedule differ, and both outcomes are kept.   *)
(***************************************************************************)
EXTENDS Integers, Sequences, FiniteSets, TLC

VARIABLES
    envInterval,         \* the environment's CHECK_INTERVAL, a string or unset
    CHECK_INTERVAL,      \* line 21, minutes
    TELEGRAM_BOT_TOKEN,  \* line 22
    TELEGRAM_CHAT_ID,    \* line 23
    SLACK_WEBHOOK_URL,   \* line 24
    REQUEST_TIMEOUT,     \* line 25, seconds
    clock,               \* the wall clock (time.time / datetime.now), seconds
    next_run,            \* the scheduled job's next_run
    pc,                  \* where the process is
    idx,                 \* position of the for loop of monitor_job in ENDPOINTS
    timestamp,           \* the local of monitor_job, line 85
    start,               \* the local of check_endpoint, line 51
    attempts,            \* transport attempts made by the SESSION call in flight
    result,              \* (is_healthy, status_code, response_time) of line 89
    checkedAt,           \* when the check_endpoint call of line 89 was made
    alert_msg,           \* the local of monitor_job, line 94
    slack_msg,           \* the local of monitor_job, line 99
    trace,               \* what was done for the endpoint at idx, in order
    outcomes,            \* what the attempts of the SESSION.get in flight ended in
    verdict,             \* per endpoint: how its check of this cycle ended
    calls,               \* per endpoint: calls of each send_*_alert in this cycle
    probed,              \* the endpoints check_endpoint was called for in this cycle
    cycles,              \* monitor_job runs started
    lastStart,           \* start time of the latest cycle
    prevStart,           \* start time of the cycle before it
    lastFinish,          \* finish time of the latest finished cycle
    busy,                \* seconds spent inside the finished cycles
    completed,           \* monitor_job runs that returned
    failStreak,          \* finished cycles in a row in which the first endpoint failed
    alertStreak,         \* finished cycles in a row in which it was alerted for
    crash,               \* the exception that ended the process, if any
    shutdownLogs,        \* "Monitor Stopped." lines logged, line 120
    interruptedAt        \* where the process was when the interrupt came

vars == <<envInterval, CHECK_INTERVAL, TELEGRAM_BOT_TOKEN, TELEGRAM_CHAT_ID,
          SLACK_WEBHOOK_URL, REQUEST_TIMEOUT, clock, next_run, pc, idx, timestamp,
          start, attempts, result, checkedAt, alert_msg, slack_msg, trace, outcomes,
          verdict, calls, probed, cycles, lastStart, prevStart, lastFinish, busy,
          completed, failStreak, alertStreak, crash, shutdownLogs, interruptedAt>>

config == <<envInterval, CHECK_INTERVAL, TELEGRAM_BOT_TOKEN, TELEGRAM_CHAT_ID,
            SLACK_WEBHOOK_URL, REQUEST_TIMEOUT>>

----------------------------------------------------------------------------
(* Bounds of the model *)

\* the loop is followed until the clock reads MaxClock
MaxClock == 185

\* and, with an interval under one minute, for MaxCycles cycles at most
MaxCycles == 2

----------------------------------------------------------------------------
(* Values *)

\* an absent status code or response time (Python's None)
None == -1

\* an environment variable that is not set (os.getenv gives None, which is falsy)
Unset == ""

\* ENDPOINTS, lines 15-18: positions in the list
NumEndpoints == 2
ENDPOINTS == 1..NumEndpoints

\* the arguments of make_session, line 28, handed to Retry at line 34
Retries == 2
StatusForcelist == {500, 502, 503, 504}

\* Retry's allowed methods (the library default): GET is one, POST is not
RetryableMethods == {"GET"}

\* timeout=5 of the two SESSION.post calls, lines 67 and 78
AlertTimeout == 5

\* timedelta(minutes=1) in seconds, and the time.sleep(1) of line 113
SecondsPerMinute == 60
SleepTime == 1

\* what the environment can be set to; CHECK_INTERVAL is read as a string
IntervalEnv == {Unset, "abc", "-1", "0", "1"}
IntervalDefault == "5"
TimeoutValues == {0, 10}
SecretValues == {Unset, "set"}

\* what one transport attempt can end in: a response with a status, or an error
\* (conn_error: refused, unreachable, DNS, TLS; read_timeout:
\* the request was sent and no response came within the timeout)
GetStatuses == {200, 204, 304, 404, 503}
PostStatuses == {200, 503}
TransportErrors == {"conn_error", "read_timeout"}
Response(s) == [kind |-> "response", status |-> s]
Failure(k) == [kind |-> k, status |-> None]
GetOutcomes == {Response(s) : s \in GetStatuses} \cup {Failure(k) : k \in TransportErrors}
PostOutcomes == {Response(s) : s \in PostStatuses} \cup {Failure(k) : k \in TransportErrors}

NoResult == [healthy |-> FALSE, status |-> None, rt |-> None]
NoMsg == [fmt |-> "none", name |-> 0, status |-> None, time |-> None]
NoVerdict == [e \in ENDPOINTS |-> "none"]
NoCalls == [e \in ENDPOINTS |-> [telegram |-> 0, slack |-> 0]]

Terminated == {"stopped", "crashed"}

\* CHECK_INTERVAL before line 21 has assigned it
NotLoaded == None

\* os.getenv(name, default)
GetEnv(value, default) == IF value = Unset THEN default ELSE value

\* int(s) for the strings above: the integer a decimal numeral stands for; any
\* other string raises ValueError
IsInteger(s) == s \in {"-1", "0", "1", "5"}
IntOf(s) == CASE s = "-1" -> -1 [] s = "0" -> 0 [] s = "1" -> 1 [] s = "5" -> 5

\* where the process is inside the try of main, lines 117-118
InTry == {"start", "registering", "loop", "sleep", "check", "get", "checked", "telegram",
          "telegram_post", "slack", "slack_post", "returned"}

----------------------------------------------------------------------------
(* The retrying transport: make_session *)

\* Retry(total=retries, status_forcelist=...): whether the adapter mounted on
\* SESSION answers outcome o of a request of this method with another attempt,
\* given `made` attempts so far (the one that ended in o included).  A response
\* is retried only for a retryable method and a status of the forcelist; a
\* connection error for every method; a read timeout only for a retryable
\* method.  total is decremented per retry: Retries + 1 attempts at most.
IsRetried(method, o, made) ==
    /\ made <= Retries
    /\ \/ o.kind = "response" /\ method \in RetryableMethods /\ o.status \in StatusForcelist
       \/ o.kind = "conn_error"
       \/ o.kind = "read_timeout" /\ method \in RetryableMethods

\* whether the SESSION call ends by raising, once outcome o is not retried: an
\* error is raised as a RequestException; a forcelist status whose retries are
\* exhausted is raised (Retry's raise_on_status) as RetryError
Raises(method, o) ==
    \/ o.kind # "response"
    \/ method \in RetryableMethods /\ o.status \in StatusForcelist

\* how long one attempt can take: a response comes at once or takes up to the
\* timeout of the call, a connection error comes at once, a read timeout takes
\* the whole timeout
Durations(o, timeout) ==
    CASE o.kind = "read_timeout" -> {timeout}
      [] o.kind = "conn_error" -> {0}
      [] OTHER -> {0, timeout}

----------------------------------------------------------------------------
(* check_endpoint *)

\* round(time.time() - start, 2): seconds to hundredths of a second
Round2(seconds) == seconds * 100

\* check_endpoint taking every 2xx status for healthy
CheckResult_Any2xx(o, elapsed) ==
    IF Raises("GET", o)
    THEN [healthy |-> FALSE, status |-> None, rt |-> None]
    ELSE [healthy |-> (o.status \in 200..299), status |-> o.status, rt |-> Round2(elapsed)]

\* check_endpoint measuring the time of a request that raised, too
CheckResult_TimedFailure(o, elapsed) ==
    IF Raises("GET", o)
    THEN [healthy |-> FALSE, status |-> None, rt |-> Round2(elapsed)]
    ELSE [healthy |-> (o.status = 200), status |-> o.status, rt |-> Round2(elapsed)]

\* the tuple check_endpoint returns for the final outcome of SESSION.get
CheckResult(o, elapsed) ==
    IF Raises("GET", o)
    THEN [healthy |-> FALSE, status |-> None, rt |-> None]
    ELSE [healthy |-> (o.status = 200), status |-> o.status, rt |-> Round2(elapsed)]

----------------------------------------------------------------------------
(* The sinks *)

\* the guard of line 62 without its test of the chat id
TelegramConfigured_TokenOnly == ~(TELEGRAM_BOT_TOKEN = Unset)

\* the guards of lines 62 and 74
TelegramConfigured == ~(TELEGRAM_BOT_TOKEN = Unset \/ TELEGRAM_CHAT_ID = Unset)
SlackConfigured == ~(SLACK_WEBHOOK_URL = Unset)

\* lines 67 and 78: SESSION.post has returned a response; its status is not
\* looked at, whatever it is (a status outside 2xx is noted as "rejected")
Returned(sink, o) ==
    IF o.status \in 200..299
    THEN <<sink \o "_post">>
    ELSE <<sink \o "_post", sink \o "_rejected">>

\* lines 94-99: what the two messages are rendered from
AlertMsg(e, status_code, ts) == [fmt |-> "html", name |-> e, status |-> status_code, time |-> ts]
SlackMsg(e, status_code, ts) == [fmt |-> "plain", name |-> e, status |-> status_code, time |-> ts]

----------------------------------------------------------------------------
(* The scheduler *)

\* schedule.every(CHECK_INTERVAL).minutes: the job's period in seconds
Period == CHECK_INTERVAL * SecondsPerMinute

\* the environment the process is started in, before line 21 is executed.  The
\* intervals under one minute are followed with no sink configured and the
\* default timeout.
Init ==
    /\ envInterval \in IntervalEnv
    /\ CHECK_INTERVAL = NotLoaded
    /\ TELEGRAM_BOT_TOKEN \in SecretValues
    /\ TELEGRAM_CHAT_ID \in SecretValues
    /\ SLACK_WEBHOOK_URL \in SecretValues
    /\ REQUEST_TIMEOUT \in TimeoutValues
    /\ envInterval \in {"0", "-1"} =>
          /\ TELEGRAM_BOT_TOKEN = Unset
          /\ TELEGRAM_CHAT_ID = Unset
          /\ SLACK_WEBHOOK_URL = Unset
          /\ REQUEST_TIMEOUT > 0
    /\ clock = 0
    /\ next_run = None
    /\ pc = "import"
    /\ idx = 0
    /\ timestamp = None
    /\ start = None
    /\ attempts = 0
    /\ result = NoResult
    /\ checkedAt = None
    /\ alert_msg = NoMsg
    /\ slack_msg = NoMsg
    /\ trace = <<>>
    /\ outcomes = <<>>
    /\ verdict = NoVerdict
    /\ calls = NoCalls
    /\ probed = <<>>
    /\ cycles = 0
    /\ lastStart = None
    /\ prevStart = None
    /\ lastFinish = None
    /\ busy = 0
    /\ completed = 0
    /\ failStreak = 0
    /\ alertStreak = 0
    /\ crash = "none"
    /\ shutdownLogs = 0
    /\ interruptedAt = "none"

\* the locals of monitor_job and check_endpoint
locals == <<idx, timestamp, start, attempts, result, checkedAt, alert_msg, slack_msg,
            outcomes>>

\* what is recorded of the cycle in progress and of the cycles so far
cycleRecord == <<trace, verdict, calls, probed>>
runRecord == <<cycles, lastStart, prevStart, lastFinish, busy, completed, failStreak,
              alertStreak>>

\* line 21 at import: int() of the environment's value, or of the default; a
\* string that is no integer makes int() raise ValueError and the import fail,
\* before main is reached
LoadConfig ==
    /\ pc = "import"
    /\ IF IsInteger(GetEnv(envInterval, IntervalDefault))
       THEN /\ CHECK_INTERVAL' = IntOf(GetEnv(envInterval, IntervalDefault))
            /\ pc' = "start"
       ELSE /\ pc' = "startup_failed"
            /\ UNCHANGED CHECK_INTERVAL
    /\ UNCHANGED <<envInterval, TELEGRAM_BOT_TOKEN, TELEGRAM_CHAT_ID, SLACK_WEBHOOK_URL,
                   REQUEST_TIMEOUT, clock, next_run, locals, cycleRecord, runRecord,
                   crash, shutdownLogs, interruptedAt>>

\* line 106 with a period that is not positive, under a schedule (1.2.2 on) that
\* moves next_run on by the period until it is past now: it does not return
ScheduleSpins ==
    /\ pc = "start"
    /\ Period <= 0
    /\ pc' = "registering"
    /\ UNCHANGED <<config, clock, next_run, locals, cycleRecord, runRecord, crash,
                   shutdownLogs, interruptedAt>>

\* the same with a negative period: next_run moves back until datetime is out
\* of its range, and OverflowError ends the process before the loop
ScheduleOverflows ==
    /\ pc = "registering"
    /\ Period < 0
    /\ pc' = "startup_failed"
    /\ UNCHANGED <<config, clock, next_run, locals, cycleRecord, runRecord, crash,
                   shutdownLogs, interruptedAt>>

\* lines 106-109: the job is registered, due one period from now
ScheduleMonitor ==
    /\ pc = "start"
    /\ next_run' = clock + Period
    /\ pc' = "loop"
    /\ UNCHANGED <<config, clock, locals, cycleRecord, runRecord, crash,
                   shutdownLogs, interruptedAt>>

\* run_pending taking the job for due only once its time is past (now > next_run)
RunPending_Late ==
    /\ pc = "loop"
    /\ (Period <= 0 /\ clock > next_run) => cycles < MaxCycles
    /\ IF clock > next_run
       THEN /\ timestamp' = clock
            /\ idx' = 1
            /\ pc' = "check"
            /\ cycles' = cycles + 1
            /\ prevStart' = lastStart
            /\ lastStart' = clock
       ELSE /\ pc' = "sleep"
            /\ UNCHANGED <<timestamp, idx, cycles, prevStart, lastStart>>
    /\ UNCHANGED <<config, clock, next_run, start, attempts, result, checkedAt,
                   alert_msg, slack_msg, outcomes, cycleRecord, lastFinish, busy,
                   completed, failStreak, alertStreak, crash, shutdownLogs,
                   interruptedAt>>

\* the loop running the job at every poll, due or not (schedule.run_all)
RunPending_RunAll ==
    /\ pc = "loop"
    /\ cycles < MaxCycles
    /\ timestamp' = clock
    /\ idx' = 1
    /\ pc' = "check"
    /\ cycles' = cycles + 1
    /\ prevStart' = lastStart
    /\ lastStart' = clock
    /\ UNCHANGED <<config, clock, next_run, start, attempts, result, checkedAt,
                   alert_msg, slack_msg, outcomes, cycleRecord, lastFinish, busy,
                   completed, failStreak, alertStreak, crash, shutdownLogs,
                   interruptedAt>>

\* line 112: the job is run if it is due (now >= next_run); monitor_job then
\* takes its timestamp (line 85) and enters the for loop
RunPending ==
    /\ pc = "loop"
    /\ (Period <= 0 /\ clock >= next_run) => cycles < MaxCycles
    /\ IF clock >= next_run
       THEN /\ timestamp' = clock
            /\ idx' = 1
            /\ pc' = "check"
            /\ cycles' = cycles + 1
            /\ prevStart' = lastStart
            /\ lastStart' = clock
       ELSE /\ pc' = "sleep"
            /\ UNCHANGED <<timestamp, idx, cycles, prevStart, lastStart>>
    /\ UNCHANGED <<config, clock, next_run, start, attempts, result, checkedAt,
                   alert_msg, slack_msg, outcomes, cycleRecord, lastFinish, busy,
                   completed, failStreak, alertStreak, crash, shutdownLogs,
                   interruptedAt>>

\* line 113
Sleep ==
    /\ pc = "sleep"
    /\ clock + SleepTime <= MaxClock
    /\ clock' = clock + SleepTime
    /\ pc' = "loop"
    /\ UNCHANGED <<config, next_run, locals, cycleRecord, runRecord, crash,
                   shutdownLogs, interruptedAt>>

----------------------------------------------------------------------------
(* One monitoring cycle: monitor_job *)

\* line 89 enters check_endpoint, which reads the clock (line 51)
CheckEndpoint ==
    /\ pc = "check"
    /\ start' = clock
    /\ checkedAt' = clock
    /\ attempts' = 0
    /\ outcomes' = <<>>
    /\ result' = NoResult
    /\ trace' = <<"probe">>
    /\ probed' = Append(probed, idx)
    /\ pc' = "get"
    /\ UNCHANGED <<config, clock, next_run, idx, timestamp, alert_msg, slack_msg,
                   verdict, calls, runRecord, crash, shutdownLogs, interruptedAt>>

\* line 52 with a timeout the transport refuses: a timeout <= 0 makes SESSION.get
\* raise ValueError before anything is sent; check_endpoint catches only
\* RequestException (line 55), nothing above it catches ValueError (line 119
\* catches KeyboardInterrupt), and the process ends
SessionGetRefused ==
    /\ pc = "get"
    /\ REQUEST_TIMEOUT <= 0
    /\ pc' = "crashed"
    /\ crash' = "ValueError"
    /\ UNCHANGED <<config, clock, next_run, locals, cycleRecord, runRecord,
                   shutdownLogs, interruptedAt>>

\* lines 52-57: one transport attempt of SESSION.get; the adapter retries it or
\* check_endpoint returns
SessionGet ==
    /\ pc = "get"
    /\ REQUEST_TIMEOUT > 0
    /\ \E o \in GetOutcomes : \E d \in Durations(o, REQUEST_TIMEOUT) :
          /\ clock + d <= MaxClock
          /\ clock' = clock + d
          /\ attempts' = attempts + 1
          /\ outcomes' = Append(outcomes, o)
          /\ IF IsRetried("GET", o, attempts + 1)
             THEN UNCHANGED <<pc, result, verdict>>
             ELSE /\ result' = CheckResult(o, clock' - start)
                  /\ verdict' = [verdict EXCEPT ![idx] =
                                    IF result'.healthy THEN "healthy" ELSE "failed"]
                  /\ pc' = "checked"
    /\ UNCHANGED <<config, next_run, idx, timestamp, start, checkedAt, alert_msg,
                   slack_msg, trace, calls, probed, runRecord, crash, shutdownLogs,
                   interruptedAt>>

\* what follows the last statement of the for loop's body: the next endpoint,
\* or the return of monitor_job
AfterEndpoint ==
    IF idx < NumEndpoints
    THEN /\ idx' = idx + 1
         /\ pc' = "check"
    ELSE /\ idx' = idx
         /\ pc' = "returned"

\* monitor_job alerting for a healthy endpoint as well
ReportHealthy_Alerting ==
    /\ pc = "checked"
    /\ result.healthy
    /\ trace' = Append(trace, "info")
    /\ outcomes' = <<>>
    /\ alert_msg' = AlertMsg(idx, result.status, timestamp)
    /\ slack_msg' = SlackMsg(idx, result.status, timestamp)
    /\ pc' = "telegram"
    /\ UNCHANGED <<config, clock, next_run, idx, timestamp, start, attempts, result,
                   checkedAt, verdict, calls, probed, runRecord, crash, shutdownLogs,
                   interruptedAt>>

\* lines 90-91: a healthy endpoint is logged
ReportHealthy ==
    /\ pc = "checked"
    /\ result.healthy
    /\ trace' = Append(trace, "info")
    /\ outcomes' = <<>>
    /\ AfterEndpoint
    /\ UNCHANGED <<config, clock, next_run, timestamp, start, attempts, result,
                   checkedAt, alert_msg, slack_msg, verdict, calls, probed, runRecord,
                   crash, shutdownLogs, interruptedAt>>

\* monitor_job suppressing the alert of an endpoint it alerted for in the cycle
\* before
ReportFailed_Deduplicated ==
    /\ pc = "checked"
    /\ ~result.healthy
    /\ trace' = Append(trace, "error")
    /\ outcomes' = <<>>
    /\ IF idx = 1 /\ alertStreak > 0
       THEN /\ AfterEndpoint
            /\ UNCHANGED <<alert_msg, slack_msg>>
       ELSE /\ alert_msg' = AlertMsg(idx, result.status, timestamp)
            /\ slack_msg' = SlackMsg(idx, result.status, timestamp)
            /\ pc' = "telegram"
            /\ UNCHANGED idx
    /\ UNCHANGED <<config, clock, next_run, timestamp, start, attempts, result,
                   checkedAt, verdict, calls, probed, runRecord, crash, shutdownLogs,
                   interruptedAt>>

\* lines 92-99: a failed endpoint is logged and the two messages are rendered
ReportFailed ==
    /\ pc = "checked"
    /\ ~result.healthy
    /\ trace' = Append(trace, "error")
    /\ outcomes' = <<>>
    /\ alert_msg' = AlertMsg(idx, result.status, timestamp)
    /\ slack_msg' = SlackMsg(idx, result.status, timestamp)
    /\ pc' = "telegram"
    /\ UNCHANGED <<config, clock, next_run, idx, timestamp, start, attempts, result,
                   checkedAt, verdict, calls, probed, runRecord, crash, shutdownLogs,
                   interruptedAt>>

\* lines 100, 60-65: send_telegram_alert is called; it returns at once when the
\* token or the chat id is missing
SendTelegramAlert ==
    /\ pc = "telegram"
    /\ calls' = [calls EXCEPT ![idx].telegram = @ + 1]
    /\ trace' = Append(trace, "telegram")
    /\ attempts' = 0
    /\ pc' = IF TelegramConfigured THEN "telegram_post" ELSE "slack"
    /\ UNCHANGED <<config, clock, next_run, idx, timestamp, start, result, checkedAt,
                   alert_msg, slack_msg, outcomes, verdict, probed, runRecord, crash,
                   shutdownLogs, interruptedAt>>

\* send_telegram_alert without the try/except of lines 66-69: what SESSION.post
\* raises leaves monitor_job and ends the process
TelegramPost_Unguarded ==
    /\ pc = "telegram_post"
    /\ \E o \in PostOutcomes : \E d \in Durations(o, AlertTimeout) :
          /\ clock + d <= MaxClock
          /\ clock' = clock + d
          /\ attempts' = attempts + 1
          /\ IF IsRetried("POST", o, attempts + 1)
             THEN /\ trace' = Append(trace, "telegram_post")
                  /\ UNCHANGED <<pc, crash>>
             ELSE IF Raises("POST", o)
                  THEN /\ trace' = trace \o <<"telegram_post", "telegram_raised">>
                       /\ pc' = "crashed"
                       /\ crash' = "RequestException"
                  ELSE /\ trace' = trace \o Returned("telegram", o)
                       /\ pc' = "slack"
                       /\ UNCHANGED crash
    /\ UNCHANGED <<config, next_run, idx, timestamp, start, result, checkedAt,
                   alert_msg, slack_msg, outcomes, verdict, calls, probed, runRecord,
                   shutdownLogs, interruptedAt>>

\* lines 66-69: one transport attempt of SESSION.post; the adapter retries it,
\* or the call returns, or it raises and the warning is logged
TelegramPost ==
    /\ pc = "telegram_post"
    /\ \E o \in PostOutcomes : \E d \in Durations(o, AlertTimeout) :
          /\ clock + d <= MaxClock
          /\ clock' = clock + d
          /\ attempts' = attempts + 1
          /\ IF IsRetried("POST", o, attempts + 1)
             THEN /\ trace' = Append(trace, "telegram_post")
                  /\ UNCHANGED pc
             ELSE /\ trace' = IF Raises("POST", o)
                              THEN trace \o <<"telegram_post", "telegram_raised",
                                               "telegram_warning">>
                              ELSE trace \o Returned("telegram", o)
                  /\ pc' = "slack"
    /\ UNCHANGED <<config, next_run, idx, timestamp, start, result, checkedAt,
                   alert_msg, slack_msg, outcomes, verdict, calls, probed, runRecord,
                   crash, shutdownLogs, interruptedAt>>

\* lines 101, 72-76: send_slack_alert is called; it returns at once when the
\* webhook URL is missing, and the body of the for loop is over
SendSlackAlert ==
    /\ pc = "slack"
    /\ calls' = [calls EXCEPT ![idx].slack = @ + 1]
    /\ trace' = Append(trace, "slack")
    /\ attempts' = 0
    /\ IF SlackConfigured
       THEN /\ pc' = "slack_post"
            /\ UNCHANGED idx
       ELSE AfterEndpoint
    /\ UNCHANGED <<config, clock, next_run, timestamp, start, result, checkedAt,
                   alert_msg, slack_msg, outcomes, verdict, probed, runRecord, crash,
                   shutdownLogs, interruptedAt>>

\* lines 77-80: one transport attempt of SESSION.post to the webhook
SlackPost ==
    /\ pc = "slack_post"
    /\ \E o \in PostOutcomes : \E d \in Durations(o, AlertTimeout) :
          /\ clock + d <= MaxClock
          /\ clock' = clock + d
          /\ attempts' = attempts + 1
          /\ IF IsRetried("POST", o, attempts + 1)
             THEN /\ trace' = Append(trace, "slack_post")
                  /\ UNCHANGED <<pc, idx>>
             ELSE /\ trace' = IF Raises("POST", o)
                              THEN trace \o <<"slack_post", "slack_raised",
                                               "slack_warning">>
                              ELSE trace \o Returned("slack", o)
                  /\ AfterEndpoint
    /\ UNCHANGED <<config, next_run, timestamp, start, result, checkedAt, alert_msg,
                   slack_msg, outcomes, verdict, calls, probed, runRecord,
                   crash, shutdownLogs, interruptedAt>>

\* the job rescheduled one period from the time it was due, not from now: the
\* ticks that fell inside a long cycle are due at once
JobDone_FixedRate ==
    /\ pc = "returned"
    /\ lastFinish' = clock
    /\ busy' = busy + (clock - lastStart)
    /\ next_run' = next_run + Period
    /\ pc' = "sleep"
    /\ idx' = 0
    /\ timestamp' = None
    /\ start' = None
    /\ attempts' = 0
    /\ result' = NoResult
    /\ checkedAt' = None
    /\ alert_msg' = NoMsg
    /\ slack_msg' = NoMsg
    /\ outcomes' = <<>>
    /\ trace' = <<>>
    /\ verdict' = NoVerdict
    /\ calls' = NoCalls
    /\ probed' = <<>>
    /\ completed' = completed + 1
    /\ failStreak' = IF verdict[1] = "failed" THEN failStreak + 1 ELSE 0
    /\ alertStreak' = IF calls[1].telegram > 0 /\ calls[1].slack > 0
                      THEN alertStreak + 1 ELSE 0
    /\ UNCHANGED <<config, clock, cycles, lastStart, prevStart, crash, shutdownLogs,
                   interruptedAt>>

\* monitor_job has returned (its locals are gone): the job is rescheduled one
\* period from now, run_pending returns and the loop sleeps (line 113)
JobDone ==
    /\ pc = "returned"
    /\ lastFinish' = clock
    /\ busy' = busy + (clock - lastStart)
    /\ next_run' = clock + Period
    /\ pc' = "sleep"
    /\ idx' = 0
    /\ timestamp' = None
    /\ start' = None
    /\ attempts' = 0
    /\ result' = NoResult
    /\ checkedAt' = None
    /\ alert_msg' = NoMsg
    /\ slack_msg' = NoMsg
    /\ outcomes' = <<>>
    /\ trace' = <<>>
    /\ verdict' = NoVerdict
    /\ calls' = NoCalls
    /\ probed' = <<>>
    /\ completed' = completed + 1
    /\ failStreak' = IF verdict[1] = "failed" THEN failStreak + 1 ELSE 0
    /\ alertStreak' = IF calls[1].telegram > 0 /\ calls[1].slack > 0
                      THEN alertStreak + 1 ELSE 0
    /\ UNCHANGED <<config, clock, cycles, lastStart, prevStart, crash, shutdownLogs,
                   interruptedAt>>

----------------------------------------------------------------------------
(* The process *)

\* the interrupt with send_telegram_alert catching everything (a bare except at
\* line 68): one that comes during the delivery is logged as a delivery failure
\* and the cycle goes on
KeyboardInterrupt_CaughtBySink ==
    /\ pc \in InTry
    /\ interruptedAt' = pc
    /\ IF pc = "telegram_post"
       THEN /\ trace' = trace \o <<"telegram_raised", "telegram_warning">>
            /\ pc' = "slack"
            /\ UNCHANGED <<config, clock, next_run, locals, verdict, calls, probed,
                           runRecord, crash, shutdownLogs>>
       ELSE /\ pc' = "stopped"
            /\ shutdownLogs' = shutdownLogs + 1
            /\ idx' = 0
            /\ timestamp' = None
            /\ start' = None
            /\ attempts' = 0
            /\ result' = NoResult
            /\ checkedAt' = None
            /\ alert_msg' = NoMsg
            /\ slack_msg' = NoMsg
            /\ outcomes' = <<>>
            /\ UNCHANGED <<config, clock, next_run, cycleRecord, runRecord, crash>>

\* lines 117-120: KeyboardInterrupt, at any point of schedule_monitor (none of
\* the except clauses below it, lines 55, 68 and 79, catches it), unwinds the
\* stack (the locals are gone) and the shutdown line is logged
KeyboardInterrupt ==
    /\ pc \in InTry
    /\ pc' = "stopped"
    /\ shutdownLogs' = shutdownLogs + 1
    /\ interruptedAt' = pc
    /\ idx' = 0
    /\ timestamp' = None
    /\ start' = None
    /\ attempts' = 0
    /\ result' = NoResult
    /\ checkedAt' = None
    /\ alert_msg' = NoMsg
    /\ slack_msg' = NoMsg
    /\ outcomes' = <<>>
    /\ UNCHANGED <<config, clock, next_run, cycleRecord, runRecord, crash>>

Next ==
    \/ LoadConfig
    \/ ScheduleMonitor
    \/ ScheduleSpins
    \/ ScheduleOverflows
    \/ RunPending
    \/ Sleep
    \/ CheckEndpoint
    \/ SessionGetRefused
    \/ SessionGet
    \/ ReportHealthy
    \/ ReportFailed
    \/ SendTelegramAlert
    \/ TelegramPost
    \/ SendSlackAlert
    \/ SlackPost
    \/ JobDone
    \/ KeyboardInterrupt

Spec == Init /\ [][Next]_vars

----------------------------------------------------------------------------
(* Properties *)

Count(seq, x) == Cardinality({i \in DOMAIN seq : seq[i] = x})
Has(seq, x) == \E i \in DOMAIN seq : seq[i] = x

\* what the last attempt of the SESSION.get of the current check ended in
FinalOutcome == outcomes[Len(outcomes)]

\* the loop is waiting for the next tick; a cycle is in execution
Idle == pc \in {"loop", "sleep"}
InCycle == pc \in {"check", "get", "checked", "telegram", "telegram_post", "slack",
                   "slack_post", "returned"}

\* C1: check_endpoint reports healthy exactly when the final response has status
\* 200 (no other 2xx, 3xx, 4xx or 5xx status, and no raised request, is healthy),
\* and a 200 response carries a response time that is present and not negative.
C1_HealthyIffStatus200 ==
    pc = "checked" =>
        /\ result.healthy <=> (FinalOutcome.kind = "response" /\ FinalOutcome.status = 200)
        /\ (FinalOutcome.kind = "response" /\ FinalOutcome.status = 200)
              => (result.rt # None /\ result.rt >= 0)

\* a check that ended with a 200 response which took its time
C1_Witness ==
    /\ pc = "checked"
    /\ FinalOutcome = Response(200)
    /\ result.healthy
    /\ result.status = 200
    /\ result.rt > 0

\* C2: for an endpoint that answers every attempt with a response, the last of
\* them with a status other than 200, check_endpoint gives healthy = false with
\* that same status recorded in the result.
C2_NonOkStatusRecorded ==
    (/\ pc = "checked"
     /\ \A i \in DOMAIN outcomes : outcomes[i].kind = "response"
     /\ FinalOutcome.status # 200)
        => (~result.healthy /\ result.status = FinalOutcome.status)

\* C3: a request that fails at network level gives (False, None, None) without
\* raising out of check_endpoint, and a response time is present only when a
\* response was completed.
C3_NetworkFailureResult ==
    /\ outcomes # <<>> => (pc \in {"get", "checked"} /\ crash = "none")
    /\ pc = "checked" =>
          /\ FinalOutcome.kind # "response"
                => result = [healthy |-> FALSE, status |-> None, rt |-> None]
          /\ result.rt # None => FinalOutcome.kind = "response"

\* a check whose request timed out on every attempt the transport made
C3_Witness ==
    /\ pc = "checked"
    /\ FinalOutcome.kind = "read_timeout"
    /\ clock - start = (Retries + 1) * REQUEST_TIMEOUT
    /\ result = [healthy |-> FALSE, status |-> None, rt |-> None]

\* the call of a sink's send function for the endpoint of trace has returned
TelegramReturned == Has(trace, "telegram") /\ pc \in {"slack", "slack_post", "check", "returned"}
SlackReturned == Has(trace, "slack") /\ pc \in {"check", "returned"}

\* C4: in a cycle each send function is called at most once per endpoint and only
\* for an endpoint whose check failed, and when the cycle is over each has been
\* called exactly once for every failed endpoint and never for a healthy one.
C4_DispatchOncePerFailedEndpoint ==
    /\ \A e \in ENDPOINTS :
          /\ calls[e].telegram <= 1
          /\ calls[e].slack <= 1
          /\ (calls[e].telegram > 0 \/ calls[e].slack > 0) => verdict[e] = "failed"
    /\ pc = "returned" =>
          \A e \in ENDPOINTS :
             /\ verdict[e] \in {"healthy", "failed"}
             /\ calls[e] = IF verdict[e] = "failed"
                           THEN [telegram |-> 1, slack |-> 1]
                           ELSE [telegram |-> 0, slack |-> 0]

\* a finished cycle in which the first endpoint failed and the second was healthy
C4_Witness ==
    /\ pc = "returned"
    /\ verdict[1] = "failed"
    /\ verdict[2] = "healthy"
    /\ calls[1] = [telegram |-> 1, slack |-> 1]
    /\ calls[2] = [telegram |-> 0, slack |-> 0]

\* C5: for a sink that is not configured (Telegram: token or chat id missing,
\* Slack: webhook URL missing) a dispatch makes no POST and logs no warning, it
\* raises nothing, and a sink that is configured has had its POST once its send
\* function has returned.
C5_UnconfiguredSinkSkipped ==
    /\ (TELEGRAM_BOT_TOKEN = Unset \/ TELEGRAM_CHAT_ID = Unset)
          => (/\ pc # "telegram_post"
              /\ ~Has(trace, "telegram_post")
              /\ ~Has(trace, "telegram_warning"))
    /\ SLACK_WEBHOOK_URL = Unset
          => (/\ pc # "slack_post"
              /\ ~Has(trace, "slack_post")
              /\ ~Has(trace, "slack_warning"))
    /\ (Has(trace, "telegram") \/ Has(trace, "slack")) => crash = "none"
    /\ (TelegramReturned /\ TELEGRAM_BOT_TOKEN # Unset /\ TELEGRAM_CHAT_ID # Unset)
          => Has(trace, "telegram_post")
    /\ (SlackReturned /\ SLACK_WEBHOOK_URL # Unset) => Has(trace, "slack_post")

\* a dispatch with the chat id missing and Slack configured: Slack got its POST
C5_Witness ==
    /\ TELEGRAM_BOT_TOKEN # Unset
    /\ TELEGRAM_CHAT_ID = Unset
    /\ SLACK_WEBHOOK_URL # Unset
    /\ pc = "returned"
    /\ Has(trace, "telegram")
    /\ ~Has(trace, "telegram_post")
    /\ Has(trace, "slack_post")

\* C6: when the delivery to a sink raised, the process goes on: after
\* Telegram's failure Slack, if configured, gets its POST in the same dispatch,
\* and after the dispatch the cycle is at the next endpoint or at its end.
C6_SinkFailureIsolated ==
    /\ Has(trace, "telegram_raised") =>
          /\ pc \in {"slack", "slack_post", "check", "returned", "stopped"}
          /\ (SLACK_WEBHOOK_URL # Unset /\ pc \in {"check", "returned"})
                => Has(trace, "slack_post")
    /\ Has(trace, "slack_raised") => pc \in {"check", "returned", "stopped"}
    /\ (Has(trace, "telegram_raised") \/ Has(trace, "slack_raised")) => crash = "none"

\* Telegram's delivery raised, Slack got its POST, and the cycle is at the next
\* endpoint
C6_Witness ==
    /\ Has(trace, "telegram_raised")
    /\ Has(trace, "slack_post")
    /\ pc = "check"
    /\ idx = 2

\* C7: a dispatch makes at most one POST attempt per sink.
C7_OneDeliveryAttemptPerSink ==
    /\ Count(trace, "telegram_post") <= 1
    /\ Count(trace, "slack_post") <= 1

\* C8 as stated: with an interval of 1 minute and no time spent in the cycles,
\* 3 cycles have run when the clock reads 3 minutes; and two consecutive cycles
\* start exactly one period apart.
C8_FixedStartInterval ==
    /\ (CHECK_INTERVAL = 1 /\ busy = 0 /\ pc = "sleep" /\ clock = 3 * SecondsPerMinute)
          => cycles = 3
    /\ prevStart # None => lastStart - prevStart = Period

Max(a, b) == IF a >= b THEN a ELSE b

\* C8 as amended: with an interval of 1 minute and no time spent in the cycles,
\* 3 cycles have run when the clock reads 3 minutes; the job is due one period
\* after the end of the cycle before (after the start of the loop, for the first
\* cycle) and is run by the first poll that finds it due, so that two consecutive
\* cycles start one period (one sleep of the loop, if the period is shorter) plus
\* the duration of the earlier cycle apart, never less than a period.
C8_StartIntervalWithDrift ==
    /\ (CHECK_INTERVAL = 1 /\ busy = 0 /\ pc = "sleep" /\ clock = 3 * SecondsPerMinute)
          => cycles = 3
    /\ Idle => next_run = (IF completed = 0 THEN 0 ELSE lastFinish) + Period
    /\ (Idle /\ Period > 0) => next_run = (cycles + 1) * Period + busy
    /\ prevStart # None => lastStart - prevStart >= Period
    /\ (InCycle /\ prevStart # None)
          => lastStart - prevStart = Max(Period, SleepTime) + (lastFinish - prevStart)

\* the clock reads 3 minutes, no cycle took time, and the third cycle has run
C8_Witness ==
    /\ CHECK_INTERVAL = 1
    /\ busy = 0
    /\ pc = "sleep"
    /\ clock = 3 * SecondsPerMinute
    /\ cycles = 3
    /\ lastStart = 3 * SecondsPerMinute
    /\ prevStart = 2 * SecondsPerMinute

\* C9: one check makes at most Retries + 1 attempts, a response is answered with
\* another attempt only if its status is of the forcelist, and for an endpoint
\* that answers every attempt the result carries the status of the last
\* response (200 after 503s, or the last 503 when the retries are exhausted).
C9_RetryCeilingAndFinalOutcome ==
    /\ Len(outcomes) <= Retries + 1
    /\ \A i \in 1..(Len(outcomes) - 1) :
          outcomes[i].kind = "response" => outcomes[i].status \in StatusForcelist
    /\ (pc = "checked" /\ \A i \in DOMAIN outcomes : outcomes[i].kind = "response")
          => (/\ result.status = FinalOutcome.status
              /\ result.healthy = (FinalOutcome.status = 200))

\* C10: the process ends only by the interrupt, with its shutdown line; no
\* outcome of a probe or of an alert delivery ends it.
C10_OnlyInterruptEndsLoop ==
    /\ pc # "crashed"
    /\ crash = "none"
    /\ pc \in Terminated => (pc = "stopped" /\ shutdownLogs = 1)

\* C11: once the interrupt has come, at whatever point of the loop, the process
\* is stopped with the shutdown line logged exactly once; the shutdown line is
\* logged by the step that stops the process and by no other, and neither that
\* step nor any later one probes an endpoint, calls a send function or makes a
\* delivery attempt.
C11_InterruptStopsLoop ==
    /\ [](interruptedAt # "none" => (pc = "stopped" /\ shutdownLogs = 1))
    /\ [][/\ shutdownLogs' # shutdownLogs =>
               (/\ shutdownLogs = 0
                /\ shutdownLogs' = 1
                /\ pc' = "stopped"
                /\ UNCHANGED <<trace, probed, calls, cycles>>)
          /\ shutdownLogs >= 1 => UNCHANGED <<pc, trace, probed, calls, cycles, clock>>]_vars

\* the interrupt came between two attempts of the Telegram delivery
C11_Witness ==
    /\ pc = "stopped"
    /\ interruptedAt = "telegram_post"
    /\ Has(trace, "telegram_post")
    /\ ~Has(trace, "slack")
    /\ shutdownLogs = 1

\* what send_telegram_alert and send_slack_alert leave in the trace
TelegramEvents == {"telegram", "telegram_post", "telegram_rejected", "telegram_raised",
                   "telegram_warning"}
SlackEvents == {"slack", "slack_post", "slack_rejected", "slack_raised", "slack_warning"}

\* the endpoints are probed in list order, each once at most; for the endpoint
\* in hand the probe comes first, the log line second, Telegram's events before
\* Slack's, both only after an error line; and the next endpoint (or the end of
\* the cycle) is reached, after a failed check, only with both send functions
\* called and returned
OrderInCycle ==
    /\ \A i \in DOMAIN probed : probed[i] = i
    /\ trace # <<>> => trace[1] = "probe"
    /\ \A i \in DOMAIN trace :
          /\ trace[i] \in {"info", "error"} => i = 2
          /\ trace[i] \in TelegramEvents \cup SlackEvents => trace[2] = "error"
          /\ trace[i] \in SlackEvents =>
                \A j \in DOMAIN trace : trace[j] \in TelegramEvents => j < i
    /\ (pc \in {"check", "returned"} /\ trace # <<>> /\ Has(trace, "error")) =>
          /\ Count(trace, "telegram") = 1
          /\ Count(trace, "slack") = 1
          /\ TelegramConfigured => Has(trace, "telegram_post")
          /\ SlackConfigured => Has(trace, "slack_post")

\* C12: in every cycle each endpoint is probed exactly once, in list order,
\* whatever came of the endpoints and sinks before it; for a failed endpoint the
\* error line comes first, then Telegram, then Slack, all of them over before the
\* next endpoint is probed.  A cycle is over when monitor_job has returned or the
\* process has died in it.
C12_EveryEndpointProbedInOrder ==
    /\ OrderInCycle
    /\ pc \in {"returned", "crashed"} =>
          /\ probed = [i \in 1..NumEndpoints |-> i]
          /\ \A e \in ENDPOINTS : verdict[e] \in {"healthy", "failed"}

\* the same for the cycles monitor_job returns from only
ReturnedCycleProbedAll ==
    /\ OrderInCycle
    /\ pc = "returned" =>
          /\ probed = [i \in 1..NumEndpoints |-> i]
          /\ \A e \in ENDPOINTS : verdict[e] \in {"healthy", "failed"}

\* C13: while the loop runs it is idle (every cycle started has returned) or
\* running (exactly one has not); it goes from idle to running only at a poll
\* that finds the job due, from running to idle only when monitor_job returns
\* with every endpoint probed and both send functions called for every failed
\* one, and a cycle starts only when none is in execution, however long the
\* cycle before took.
C13_IdleOrRunning ==
    /\ [](/\ Idle => cycles = completed
          /\ InCycle => cycles = completed + 1)
    /\ [][/\ (Idle /\ InCycle') =>
               (/\ pc = "loop"
                /\ clock >= next_run
                /\ cycles' = cycles + 1)
          /\ cycles' # cycles => (Idle /\ InCycle' /\ cycles = completed)
          /\ (InCycle /\ Idle') =>
               (/\ pc = "returned"
                /\ completed' = completed + 1
                /\ probed = [i \in 1..NumEndpoints |-> i]
                /\ \A e \in ENDPOINTS :
                      /\ verdict[e] \in {"healthy", "failed"}
                      /\ verdict[e] = "failed" =>
                            calls[e] = [telegram |-> 1, slack |-> 1])
          /\ completed' # completed => (InCycle /\ Idle')]_vars

\* the loop is idle again after a cycle that took longer than the interval, and
\* no other cycle was started meanwhile
C13_Witness ==
    /\ Idle
    /\ Period > 0
    /\ cycles = 1
    /\ completed = 1
    /\ lastFinish - lastStart > Period

\* C14: when the send function of a configured sink has returned, its warning
\* line has been logged exactly once if the delivery failed (the POST raised, on
\* a network error or a timeout, or the sink answered with a status outside
\* 2xx) and not at all if it succeeded; and no delivery failure ends the process.
C14_DeliveryFailureWarnsOnce ==
    /\ (TelegramReturned /\ TelegramConfigured) =>
          Count(trace, "telegram_warning") =
             IF Has(trace, "telegram_raised") \/ Has(trace, "telegram_rejected")
             THEN 1 ELSE 0
    /\ (SlackReturned /\ SlackConfigured) =>
          Count(trace, "slack_warning") =
             IF Has(trace, "slack_raised") \/ Has(trace, "slack_rejected")
             THEN 1 ELSE 0
    /\ \A x \in {"telegram_raised", "telegram_rejected", "slack_raised", "slack_rejected"} :
          Has(trace, x) => crash = "none"

\* the same for the deliveries whose POST raised or was answered with 2xx
RaisedDeliveryWarnsOnce ==
    /\ (TelegramReturned /\ TelegramConfigured /\ ~Has(trace, "telegram_rejected")) =>
          Count(trace, "telegram_warning") =
             IF Has(trace, "telegram_raised") THEN 1 ELSE 0
    /\ (SlackReturned /\ SlackConfigured /\ ~Has(trace, "slack_rejected")) =>
          Count(trace, "slack_warning") = IF Has(trace, "slack_raised") THEN 1 ELSE 0

\* the messages of a dispatch carry the name of the endpoint in hand, the status
\* its check returned (None when it returned none) and a time
MessagesOfThisCheck ==
    pc \in {"telegram", "telegram_post", "slack", "slack_post"} =>
        /\ alert_msg.name = idx
        /\ slack_msg.name = idx
        /\ alert_msg.status = result.status
        /\ slack_msg.status = result.status
        /\ alert_msg.time = slack_msg.time
        /\ alert_msg.time # None

\* C15: every message rendered for a sink carries the name of the failed
\* endpoint, the status its check returned (None when it returned none) and the
\* time at which that endpoint was checked.
C15_MessageOfThisCheck ==
    /\ MessagesOfThisCheck
    /\ pc \in {"telegram", "telegram_post", "slack", "slack_post"} =>
          alert_msg.time = checkedAt

\* a step of the cycle in execution towards its end
CycleStep ==
    \/ CheckEndpoint
    \/ SessionGet
    \/ ReportHealthy
    \/ ReportFailed
    \/ SendTelegramAlert
    \/ TelegramPost
    \/ SendSlackAlert
    \/ SlackPost
    \/ JobDone

\* the longest a cycle can take: for every endpoint a SESSION.get and two
\* SESSION.post of Retries + 1 attempts, each attempt within its timeout
LongestCycle ==
    NumEndpoints * (Retries + 1) * (REQUEST_TIMEOUT + AlertTimeout + AlertTimeout)

\* a call of SESSION.get or SESSION.post makes Retries + 1 attempts at most, and
\* a cycle in execution is within LongestCycle of its start
BoundedCalls ==
    /\ attempts <= Retries + 1
    /\ pc \in {"get", "telegram_post", "slack_post"} => attempts <= Retries
    /\ (InCycle /\ REQUEST_TIMEOUT > 0) => clock - lastStart <= LongestCycle

\* C16: every cycle that was started completes: unless the interrupt has stopped
\* the process, a cycle that has not returned is in execution and has its next
\* step to take, and its calls are bounded in attempts and in time.
C16_StartedCycleCompletes ==
    /\ BoundedCalls
    /\ (cycles > completed /\ pc # "stopped") => (InCycle /\ ENABLED CycleStep)

\* the same with a request timeout the transport accepts
CycleCompletesWithTimeout ==
    /\ BoundedCalls
    /\ (cycles > completed /\ pc # "stopped" /\ REQUEST_TIMEOUT > 0)
          => (InCycle /\ ENABLED CycleStep)

\* C17: what a cycle dispatches follows from its own checks alone: when it
\* returns, both send functions have been called once for every endpoint that
\* failed in it and for no other, whatever the cycles before did; so the first
\* endpoint has been alerted for in as many finished cycles in a row as it has
\* failed in, and a healthy check has no alert even after failures.
C17_DispatchFromThisCycleOnly ==
    /\ failStreak = alertStreak
    /\ pc = "returned" =>
          \A e \in ENDPOINTS :
             calls[e] = IF verdict[e] = "failed"
                        THEN [telegram |-> 1, slack |-> 1]
                        ELSE [telegram |-> 0, slack |-> 0]
    /\ \A e \in ENDPOINTS :
          verdict[e] = "healthy" => calls[e] = [telegram |-> 0, slack |-> 0]

\* the first endpoint failed in 3 cycles in a row and was alerted for in each
C17_Witness ==
    /\ Idle
    /\ completed = 3
    /\ failStreak = 3
    /\ alertStreak = 3

\* the value of CHECK_INTERVAL in the environment is no integer, or is an
\* integer that is not positive
UnusableInterval ==
    LET v == GetEnv(envInterval, IntervalDefault)
    IN  IF IsInteger(v) THEN IntOf(v) <= 0 ELSE TRUE

\* C18: with an unusable check interval (not a number, zero, negative) the
\* program fails at startup: no cycle runs, the loop is never entered, and the
\* process is nowhere but at its start or ended there.
C18_UnusableIntervalFailsAtStartup ==
    UnusableInterval =>
        /\ cycles = 0
        /\ \/ pc \in {"import", "start", "startup_failed"}
           \/ pc = "registering" /\ Period < 0
           \/ pc = "stopped" /\ interruptedAt \in {"start", "registering"}

\* the same for the values that are no integer
NonNumericIntervalFailsAtStartup ==
    ~IsInteger(GetEnv(envInterval, IntervalDefault)) =>
        (cycles = 0 /\ pc \in {"import", "startup_failed"})

\* with a period that is not positive, the loop, if it is entered, runs a cycle
\* at every poll: one sleep after the cycle before has returned
FiresAtEveryPoll ==
    (Period <= 0 /\ pc = "check" /\ idx = 1) =>
        lastStart = IF completed = 0 THEN 0 ELSE lastFinish + SleepTime

\* C19: no cycle runs before one period has gone by since the loop was set up,
\* a cycle in execution was started no earlier than one period after the cycle
\* before it returned, and every cycle run has had its own period of waiting
\* (the ticks that fall inside a long cycle are not made up for afterwards).
C19_NoEarlyCycleNoCatchUp ==
    /\ clock < Period => cycles = 0
    /\ InCycle =>
          /\ lastStart >= (IF completed = 0 THEN 0 ELSE lastFinish) + Period
          /\ lastStart >= cycles * Period + busy

\* the first cycle took longer than the period, and the second one was started
\* one period after it returned
C19_Witness ==
    /\ InCycle
    /\ Period > 0
    /\ cycles = 2
    /\ lastFinish - prevStart > Period
    /\ lastStart = lastFinish + Period

====
